---- MODULE Spec2Model ----
(***************************************************************************)
(* Model of graphic.py: trapezoidal membership functions (Plot), their     *)
(* point-wise aggregation into a table (Layout.create) and the text-box    *)
(* query of the water-temperature table (Figure.onTextChanged).            *)
(*                                                                         *)
(* Numbers.  All breakpoints of the program are integer-valued floats, so  *)
(* a sample point is modelled by an integer.  A membership degree is the   *)
(* quotient of two such numbers; it is modelled by the reduced fraction    *)
(* <<n, d>> with d > 0, so that equal degrees are equal values (a float    *)
(* division is correctly rounded: equal quotients give equal floats, and   *)
(* the quotients met here are too far apart to round to the same float).   *)
(* Python's None is the empty tuple and a raised ZeroDivisionError is      *)
(* <<1, 0>>.                                                               *)
(***************************************************************************)
EXTENDS Integers, Sequences, FiniteSets, TLC

\* Bounds of the model.
MaxCoord == 2
MaxPlots == 2
Margin == 5

None == << >>
ZeroDivisionError == <<1, 0>>
Zero == <<0, 1>>
One == <<1, 1>>

Abs(n) == IF n < 0 THEN -n ELSE n

RECURSIVE Gcd(_, _)
Gcd(m, n) == IF n = 0 THEN m ELSE Gcd(n, m % n)

\* n / d of Python on floats: the exact quotient, or ZeroDivisionError.
Div(n, d) ==
    IF d = 0 THEN ZeroDivisionError
    ELSE LET g == Gcd(Abs(n), Abs(d))
             s == IF d < 0 THEN -1 ELSE 1
         IN  <<(s * n) \div g, (s * d) \div g>>

IsNumber(v) == Len(v) = 2 /\ v[2] > 0

\* oldY > newY on two numbers.
Greater(v, w) == v[1] * w[2] > w[1] * v[2]

----------------------------------------------------------------------------
\* class Plot(namedtuple('Plot', ('label', 'coords')))

Plot(label, coords) == [label |-> label, coords |-> coords]

Min4(c) == CHOOSE m \in {c[1], c[2], c[3], c[4]} :
               \A k \in {c[1], c[2], c[3], c[4]} : m <= k
Max4(c) == CHOOSE m \in {c[1], c[2], c[3], c[4]} :
               \A k \in {c[1], c[2], c[3], c[4]} : m >= k

start(p) == Min4(p.coords)
end(p) == Max4(p.coords)
size(p) == end(p) - start(p)

\* membership with the rising edge tested as a < x < b.
membership_StrictRise(p, x) ==
    LET a == p.coords[1]
        b == p.coords[2]
        c == p.coords[3]
        d == p.coords[4]
    IN  IF d < x \/ x < a THEN Zero
        ELSE IF a < x /\ x < b THEN Div(x - a, b - a)
        ELSE IF b <= x /\ x <= c THEN One
        ELSE IF c < x /\ x <= d THEN Div(d - x, d - c)
        ELSE None

\* membership with the support tested as d <= x or x <= a.
membership_ClosedSupport(p, x) ==
    LET a == p.coords[1]
        b == p.coords[2]
        c == p.coords[3]
        d == p.coords[4]
    IN  IF d <= x \/ x <= a THEN Zero
        ELSE IF a <= x /\ x < b THEN Div(x - a, b - a)
        ELSE IF b <= x /\ x <= c THEN One
        ELSE IF c < x /\ x <= d THEN Div(d - x, d - c)
        ELSE None

\* membership with the rising edge tested as a <= x <= b.
membership_ClosedRise(p, x) ==
    LET a == p.coords[1]
        b == p.coords[2]
        c == p.coords[3]
        d == p.coords[4]
    IN  IF d < x \/ x < a THEN Zero
        ELSE IF a <= x /\ x <= b THEN Div(x - a, b - a)
        ELSE IF b <= x /\ x <= c THEN One
        ELSE IF c < x /\ x <= d THEN Div(d - x, d - c)
        ELSE None

\* membership with the falling edge computed as (x - d) / (d - c).
membership_NegativeFall(p, x) ==
    LET a == p.coords[1]
        b == p.coords[2]
        c == p.coords[3]
        d == p.coords[4]
    IN  IF d < x \/ x < a THEN Zero
        ELSE IF a <= x /\ x < b THEN Div(x - a, b - a)
        ELSE IF b <= x /\ x <= c THEN One
        ELSE IF c < x /\ x <= d THEN Div(x - d, d - c)
        ELSE None

membership(p, x) ==
    LET a == p.coords[1]
        b == p.coords[2]
        c == p.coords[3]
        d == p.coords[4]
    IN  IF d < x \/ x < a THEN Zero
        ELSE IF a <= x /\ x < b THEN Div(x - a, b - a)
        ELSE IF b <= x /\ x <= c THEN One
        ELSE IF c < x /\ x <= d THEN Div(d - x, d - c)
        ELSE None

----------------------------------------------------------------------------
\* class Layout: the fields values (the table) and plots.

\* arange that includes its end: 0, 1, ..., n.
arange_Inclusive(n) == [k \in 1..(n + 1) |-> k - 1]

\* numpy.arange(n) for an integer-valued n >= 0: 0, 1, ..., n-1.
arange(n) == [k \in 1..n |-> k - 1]

\* plot.start + numpy.arange(plot.size)
SamplePoints(p) ==
    LET steps == arange(size(p))
    IN  [k \in 1..Len(steps) |-> start(p) + steps[k]]

\* numpy.array([plot.membership(x) for x in xValues])
Curve(p, xs) == [k \in 1..Len(xs) |-> membership(p, xs[k])]

\* get with a key that matches no key of the table.
get_AlwaysMissing(values, x) == None

\* values.get(x)
get(values, x) == IF x \in DOMAIN values THEN values[x] ELSE None

\* The pass without the comparison: the new value is always stored.
store_Overwrite(values, x, y) == (x :> y) @@ values

\* The pass with the comparison reversed: oldY < newY skips the store.
store_KeepSmaller(values, x, y) ==
    LET oldY == get(values, x)
    IN  IF oldY # None /\ Greater(y, oldY)
        THEN values
        ELSE (x :> y) @@ values

\* One pass of the inner loop body of Layout.create for the sample x.
store(values, x, y) ==
    LET oldY == get(values, x)
    IN  IF oldY # None /\ Greater(oldY, y)
        THEN values
        ELSE (x :> y) @@ values

\* Layout(...): a new layout has an empty table and no plots.
Layout == [values |-> << >>, plots |-> {}]

\* Layout.add
add(layout, p) == [layout EXCEPT !.plots = @ \cup {p}]

----------------------------------------------------------------------------
\* translation = {} (i18n.json is not part of the repository), translate(key)

translation == << >>
translate(key) == IF key \in DOMAIN translation THEN translation[key] ELSE key

----------------------------------------------------------------------------
\* Figure._LAYOUTS_DATA: layout title -> (plot label -> breakpoints).

WaterTemperature == "Water Temperature"

SourceLayoutsData ==
    ("Square Footage" :>
        ("Low square" :> <<199, 200, 450, 510>> @@
         "Medium square" :> <<450, 480, 720, 780>> @@
         "Big square" :> <<710, 750, 1000, 1001>>)) @@
    ("Street Temperature" :>
        ("Low temperature" :> <<-31, -30, 2, 6>> @@
         "Medium temperature" :> <<1, 5, 18, 21>> @@
         "High temperature" :> <<20, 23, 30, 32>>)) @@
    (WaterTemperature :>
        ("Low temperature" :> <<39, 40, 57, 65>> @@
         "Medium temperature" :> <<55, 60, 79, 83>> @@
         "High temperature" :> <<78, 83, 105, 106>>))

\* The breakpoint tuples a <= b <= c <= d over 0..MaxCoord.
SortedCoords ==
    {c \in (0..MaxCoord) \X (0..MaxCoord) \X (0..MaxCoord) \X (0..MaxCoord) :
        c[1] <= c[2] /\ c[2] <= c[3] /\ c[3] <= c[4]}

LabelNames == <<"Low temperature", "Medium temperature", "High temperature">>

\* Lexicographic order on breakpoint tuples.
LexLeq(c, e) ==
    \/ c = e
    \/ \E k \in 1..4 : c[k] < e[k] /\ \A j \in 1..(k - 1) : c[j] = e[j]

\* Every plotsData of at most MaxPlots plots with sorted breakpoints.  A label
\* is only a name, so of the plotsData that differ by a permutation of the
\* labels one is kept: the one whose tuples ascend along LabelNames.
PlotsDataSet ==
    UNION {{pd \in [{LabelNames[k] : k \in 1..n} -> SortedCoords] :
               \A k \in 1..(n - 1) :
                   LexLeq(pd[LabelNames[k]], pd[LabelNames[k + 1]])} :
           n \in 0..MaxPlots}

\* The water-temperature layout with any plotsData of PlotsDataSet.
SmallLayoutsDataSet == {(WaterTemperature :> pd) : pd \in PlotsDataSet}

\* The configurations explored: the small ones and the one of the source.
LayoutsDataSet == SmallLayoutsDataSet \cup {SourceLayoutsData}

----------------------------------------------------------------------------
\* The text of the text box: a sequence of characters.

DigitChars == <<"0", "1", "2", "3", "4", "5", "6", "7", "8", "9">>
Digits == {DigitChars[k] : k \in 1..10}
DigitValue(ch) == (CHOOSE k \in 1..10 : DigitChars[k] = ch) - 1

Alphabet == {DigitChars[k + 1] : k \in 0..(MaxCoord + 1)} \cup {"-", "a"}

\* The texts submitted: the empty text, every text of one character, and
\* some longer ones (signed, unparsable, and points of the source's tables).
Texts ==
    {<< >>} \cup {<<ch>> : ch \in Alphabet}
        \cup {<<"-", "1">>, <<"+", "1">>, <<"1", "a">>,
               <<"6", "0">>, <<"1", "0", "5">>, <<"2", "0", "0">>}

\* int(text) succeeds on an optional sign followed by decimal digits.
Unsigned(text) ==
    IF text # << >> /\ text[1] \in {"-", "+"} THEN Tail(text) ELSE text

IsInt(text) ==
    /\ Unsigned(text) # << >>
    /\ \A k \in 1..Len(Unsigned(text)) : Unsigned(text)[k] \in Digits

RECURSIVE DigitsValue(_)
DigitsValue(ds) ==
    IF ds = << >> THEN 0
    ELSE 10 * DigitsValue(SubSeq(ds, 1, Len(ds) - 1)) + DigitValue(ds[Len(ds)])

int(text) ==
    IF text[1] = "-" THEN -DigitsValue(Unsigned(text))
    ELSE DigitsValue(Unsigned(text))

\* round(v, 4), in ten-thousandths (ties to even).
round4(v) ==
    LET m == 10000 * v[1]
        q == m \div v[2]
        r == m % v[2]
    IN  IF 2 * r > v[2] THEN q + 1
        ELSE IF 2 * r = v[2] THEN q + (q % 2)
        ELSE q

\* str of a float 0 <= k / 10000 < 1: the shortest decimal, "0.625".
RECURSIVE Decimals(_, _)
Decimals(k, places) ==
    IF places = 1 \/ k % 10 # 0
    THEN IF places = 1 THEN ToString(k)
         ELSE Decimals(k \div 10, places - 1) \o ToString(k % 10)
    ELSE Decimals(k \div 10, places - 1)

\* str(round(membershipValue, 4)): the plateau value is the integer 1, every
\* other stored value is a float below 1.
str(v) == IF v = One THEN "1" ELSE "0." \o Decimals(round4(v), 4)

IncorrectValue == "Incorrect water temperature value"

----------------------------------------------------------------------------
VARIABLES
    layoutsData,      \* Figure._LAYOUTS_DATA
    layouts,          \* Figure.__layouts: title -> [values, plots]
    axes,             \* per title, the curves handed to axis.plot
    pc,               \* position of the program
    pendingLayouts,   \* titles the loop of Figure.__init__ has not visited
    pendingPlots,     \* labels of the current layout not yet added
    layoutTitle,      \* the layout being built or aggregated
    caller,           \* who called Layout.create: "__init__" or "client"
    todo,             \* plots the loop of Layout.create has not visited
    plot,             \* the plot of the current iteration of Layout.create
    xValues,          \* its sample points
    yValues,          \* its curve
    i,                \* index in xValues of the next sample of the inner loop
    sampleX,          \* x of the last pass of the inner loop
    newY,             \* newY of the last pass of the inner loop
    text,             \* argument of the last call of onTextChanged
    membershipValue,  \* membershipValue of the last call of onTextChanged
    textLabel,        \* value shown by Figure.textLabel
    created,          \* per title, the number of completed runs of create
    firstValues       \* per title, the table left by the first run of create

vars == <<layoutsData, layouts, axes, pc, pendingLayouts, pendingPlots,
          layoutTitle, caller, todo, plot, xValues, yValues, i, sampleX, newY,
          text, membershipValue, textLabel, created, firstValues>>

createVars == <<todo, plot, xValues, yValues, i, sampleX, newY>>
queryVars == <<text, membershipValue, textLabel>>

NoPlot == Plot("", <<0, 0, 0, 0>>)

\* The state before Figure.__init__ runs, for the configuration data.
InitWith(data) ==
    /\ layoutsData = data
    /\ layouts = << >>
    /\ axes = << >>
    /\ pc = "layouts"
    /\ pendingLayouts = DOMAIN data
    /\ pendingPlots = {}
    /\ layoutTitle = ""
    /\ caller = "__init__"
    /\ todo = {}
    /\ plot = NoPlot
    /\ xValues = << >>
    /\ yValues = << >>
    /\ i = 1
    /\ sampleX = 0
    /\ newY = None
    /\ text = << >>
    /\ membershipValue = None
    /\ textLabel = ""
    /\ created = [t \in DOMAIN data |-> 0]
    /\ firstValues = << >>

Init == \E data \in LayoutsDataSet : InitWith(data)

\* Figure.__init__, head of the loop over _LAYOUTS_DATA: a new Layout.
NewLayout ==
    /\ pc = "layouts"
    /\ \E title \in pendingLayouts :
        /\ layouts' = (title :> Layout) @@ layouts
        /\ axes' = (title :> {}) @@ axes
        /\ layoutTitle' = title
        /\ pendingLayouts' = pendingLayouts \ {title}
        /\ pendingPlots' = DOMAIN layoutsData[title]
    /\ pc' = "plots"
    /\ UNCHANGED <<layoutsData, caller, createVars, queryVars, created,
                   firstValues>>

\* Figure.__init__, loop over plotsData: layout.add(Plot(...)).
AddPlot ==
    /\ pc = "plots"
    /\ \E plotTitle \in pendingPlots :
        /\ layouts' = [layouts EXCEPT ![layoutTitle] =
               add(@, Plot(translate(plotTitle),
                           layoutsData[layoutTitle][plotTitle]))]
        /\ pendingPlots' = pendingPlots \ {plotTitle}
    /\ UNCHANGED <<layoutsData, axes, pc, pendingLayouts, layoutTitle, caller,
                   createVars, queryVars, created, firstValues>>

\* Figure.__init__: layout.create(axis) is called.
CallCreate ==
    /\ pc = "plots"
    /\ pendingPlots = {}
    /\ pc' = "create"
    /\ caller' = "__init__"
    /\ todo' = layouts[layoutTitle].plots
    /\ UNCHANGED <<layoutsData, layouts, axes, pendingLayouts, pendingPlots,
                   layoutTitle, plot, xValues, yValues, i, sampleX, newY,
                   queryVars, created, firstValues>>

\* Layout.create, head of the loop over self.plots (a set: any order).
NextPlot ==
    /\ pc = "create"
    /\ \E p \in todo :
        /\ plot' = p
        /\ todo' = todo \ {p}
        /\ xValues' = SamplePoints(p)
        /\ yValues' = Curve(p, SamplePoints(p))
    /\ i' = 1
    /\ pc' = "samples"
    /\ UNCHANGED <<layoutsData, layouts, axes, pendingLayouts, pendingPlots,
                   layoutTitle, caller, sampleX, newY, queryVars, created,
                   firstValues>>

\* Layout.create, one pass of the inner loop over xValues.
Update ==
    /\ pc = "samples"
    /\ i <= Len(xValues)
    /\ sampleX' = xValues[i]
    /\ newY' = membership(plot, xValues[i])
    /\ layouts' = [layouts EXCEPT ![layoutTitle].values =
           store(@, xValues[i], membership(plot, xValues[i]))]
    /\ i' = i + 1
    /\ UNCHANGED <<layoutsData, axes, pc, pendingLayouts, pendingPlots,
                   layoutTitle, caller, todo, plot, xValues, yValues,
                   queryVars, created, firstValues>>

\* Layout.create, end of an iteration: axis.plot(xValues, yValues, label).
AxisPlot ==
    /\ pc = "samples"
    /\ i > Len(xValues)
    /\ axes' = [axes EXCEPT ![layoutTitle] =
           @ \cup {[label |-> plot.label, xValues |-> xValues,
                    yValues |-> yValues]}]
    /\ pc' = "create"
    /\ UNCHANGED <<layoutsData, layouts, pendingLayouts, pendingPlots,
                   layoutTitle, caller, createVars, queryVars, created,
                   firstValues>>

\* Layout.create returns (the calls that decorate the axis change no state
\* of the model); its local variables are gone.
ReturnCreate ==
    /\ pc = "create"
    /\ todo = {}
    /\ created' = [created EXCEPT ![layoutTitle] = @ + 1]
    /\ firstValues' =
           IF created[layoutTitle] = 0
           THEN (layoutTitle :> layouts[layoutTitle].values) @@ firstValues
           ELSE firstValues
    /\ pc' = IF caller = "__init__" THEN "layouts" ELSE "show"
    /\ plot' = NoPlot
    /\ xValues' = << >>
    /\ yValues' = << >>
    /\ i' = 1
    /\ sampleX' = 0
    /\ newY' = None
    /\ UNCHANGED <<layoutsData, layouts, axes, pendingLayouts, pendingPlots,
                   layoutTitle, caller, todo, queryVars>>

\* Figure.__init__ after the loop: the text boxes, then pyplot.show().
Show ==
    /\ pc = "layouts"
    /\ pendingLayouts = {}
    /\ textLabel' = ""
    /\ pc' = "show"
    /\ UNCHANGED <<layoutsData, layouts, axes, pendingLayouts, pendingPlots,
                   layoutTitle, caller, createVars, text, membershipValue,
                   created, firstValues>>

\* values.get(waterTemperature) of the water-temperature layout.
lookup(ls, point) == get(ls[WaterTemperature].values, point)

\* onTextChanged that stores 0 in the table for a point it does not find.
onTextChanged_Storing(t) ==
    /\ pc = "show"
    /\ text' = t
    /\ IF t = << >>
       THEN /\ textLabel' = ""
            /\ membershipValue' = None
            /\ layouts' = layouts
       ELSE IF ~IsInt(t)
       THEN /\ textLabel' = translate(IncorrectValue)
            /\ membershipValue' = None
            /\ layouts' = layouts
       ELSE /\ membershipValue' = lookup(layouts, int(t))
            /\ textLabel' =
                   IF lookup(layouts, int(t)) = None
                   THEN translate(IncorrectValue)
                   ELSE str(lookup(layouts, int(t)))
            /\ layouts' =
                   IF lookup(layouts, int(t)) = None
                   THEN [layouts EXCEPT ![WaterTemperature].values =
                             (int(t) :> Zero) @@ @]
                   ELSE layouts
    /\ UNCHANGED <<layoutsData, axes, pc, pendingLayouts,
                   pendingPlots, layoutTitle, caller, createVars, created,
                   firstValues>>

\* Figure.onTextChanged(text)
onTextChanged(t) ==
    /\ pc = "show"
    /\ text' = t
    /\ IF t = << >>
       THEN /\ textLabel' = ""
            /\ membershipValue' = None
       ELSE IF ~IsInt(t)
       THEN /\ textLabel' = translate(IncorrectValue)
            /\ membershipValue' = None
       ELSE /\ membershipValue' = lookup(layouts, int(t))
            /\ textLabel' =
                   IF lookup(layouts, int(t)) = None
                   THEN translate(IncorrectValue)
                   ELSE str(lookup(layouts, int(t)))
    /\ UNCHANGED <<layoutsData, layouts, axes, pc, pendingLayouts,
                   pendingPlots, layoutTitle, caller, createVars, created,
                   firstValues>>

TextChanged == \E t \in Texts : onTextChanged(t)

Next ==
    \/ NewLayout
    \/ AddPlot
    \/ CallCreate
    \/ NextPlot
    \/ Update
    \/ AxisPlot
    \/ ReturnCreate
    \/ Show
    \/ TextChanged

Spec == Init /\ [][Next]_vars

----------------------------------------------------------------------------
\* Layout.create called once more by a client of Layout, on a layout whose
\* first aggregation has completed; the table is not cleared.
CallCreateAgain ==
    /\ pc = "show"
    /\ \E title \in DOMAIN layouts :
        /\ created[title] = 1
        /\ layoutTitle' = title
        /\ todo' = layouts[title].plots
    /\ caller' = "client"
    /\ pc' = "create"
    /\ UNCHANGED <<layoutsData, layouts, axes, pendingLayouts, pendingPlots,
                   plot, xValues, yValues, i, sampleX, newY, queryVars,
                   created, firstValues>>

InitTwice == \E data \in SmallLayoutsDataSet : InitWith(data)

NextTwice ==
    \/ NewLayout
    \/ AddPlot
    \/ CallCreate
    \/ NextPlot
    \/ Update
    \/ AxisPlot
    \/ ReturnCreate
    \/ Show
    \/ CallCreateAgain

SpecTwice == InitTwice /\ [][NextTwice]_vars

----------------------------------------------------------------------------
\* Plot.membership on its own: a plot of the source or any plot with sorted
\* breakpoints over 0..MaxCoord, evaluated at the points of its support and
\* at up to Margin points on either side.

SourcePlots ==
    UNION {{Plot(translate(l), SourceLayoutsData[t][l]) :
               l \in DOMAIN SourceLayoutsData[t]} :
           t \in DOMAIN SourceLayoutsData}

InitMembership ==
    /\ layoutsData = << >>
    /\ layouts = << >>
    /\ axes = << >>
    /\ pc = "membership"
    /\ pendingLayouts = {}
    /\ pendingPlots = {}
    /\ layoutTitle = ""
    /\ caller = "client"
    /\ todo = {}
    /\ plot \in SourcePlots \cup {Plot(LabelNames[1], c) : c \in SortedCoords}
    /\ xValues = << >>
    /\ yValues = << >>
    /\ i = 1
    /\ sampleX = 0
    /\ newY = None
    /\ text = << >>
    /\ membershipValue = None
    /\ textLabel = ""
    /\ created = << >>
    /\ firstValues = << >>

\* newY = plot.membership(x)
Evaluate ==
    /\ pc \in {"membership", "evaluated"}
    /\ \E x \in (start(plot) - Margin)..(end(plot) + Margin) :
        /\ sampleX' = x
        /\ newY' = membership(plot, x)
    /\ pc' = "evaluated"
    /\ UNCHANGED <<layoutsData, layouts, axes, pendingLayouts, pendingPlots,
                   layoutTitle, caller, todo, plot, xValues, yValues, i,
                   queryVars, created, firstValues>>

NextMembership == Evaluate

SpecMembership == InitMembership /\ [][NextMembership]_vars

----------------------------------------------------------------------------
\* Properties.

valuesOf(t) == layouts[t].values
plotsOf(t) == layouts[t].plots

\* v = n / d, for d > 0.
Equals(v, n, d) == IsNumber(v) /\ v[1] * d = n * v[2]

\* 0 <= v <= 1
InUnit(v) == IsNumber(v) /\ 0 <= v[1] /\ v[1] <= v[2]

\* The points f.start, f.start + 1, ..., f.start + f.size - 1 of the plots.
SampledPoints(plots) ==
    UNION {{start(p) + k : k \in 0..(size(p) - 1)} : p \in plots}

\* x is one of the points f.start, ..., f.start + f.size - 1 of the plot p.
Samples(p, x) == start(p) <= x /\ x < start(p) + size(p)

\* The greatest of a non-empty set of numbers.
Greatest(S) == CHOOSE v \in S : \A w \in S : ~Greater(w, v)

\* One fixed order of the plots of S.
FixedOrder(S) ==
    CHOOSE order \in [1..Cardinality(S) -> S] :
        \A j, k \in 1..Cardinality(S) : j # k => order[j] # order[k]

\* The passes of the inner loop for the point x when Layout.create visits
\* the plots in the given order, from order[k] on (a plot has at most one
\* pass for x, and a pass for x reads and writes the key x only).
RECURSIVE VisitAt(_, _, _, _)
VisitAt(values, order, k, x) ==
    IF k > Len(order) THEN values
    ELSE VisitAt(IF Samples(order[k], x)
                 THEN store(values, x, membership(order[k], x))
                 ELSE values,
                 order, k + 1, x)

\* The table Layout.create builds from an empty table when it visits the
\* plots of S in the fixed order.
TableInFixedOrder(S) ==
    LET order == FixedOrder(S)
    IN  [x \in SampledPoints(S) |-> VisitAt(<< >>, order, 1, x)[x]]

\* C1: after Layout.create has run over all plots of a layout, the table
\* holds at every sampled point x the greatest membership(x) over ALL plots
\* of the layout.
C1_TableIsMaxOverAllPlots ==
    \A t \in DOMAIN layouts :
        (pc = "show" /\ created[t] >= 1) =>
            \A x \in SampledPoints(plotsOf(t)) :
                get(valuesOf(t), x) =
                    Greatest({membership(p, x) : p \in plotsOf(t)})

\* C2: membership(x) is the reference trapezoid: 0 outside [a, d],
\* (x-a)/(b-a) on [a, b), 1 on [b, c], (d-x)/(d-c) on (c, d]; exactly one of
\* the four cases applies; and (39,40,57,65) gives 0, 1, 1, 0.625, 0, 0 at
\* 39, 40, 50, 60, 65, 70.
C2_MembershipIsTrapezoid ==
    pc = "evaluated" =>
        LET a == plot.coords[1]
            b == plot.coords[2]
            c == plot.coords[3]
            d == plot.coords[4]
            x == sampleX
            cases == <<x < a \/ x > d, a <= x /\ x < b, b <= x /\ x <= c,
                       c < x /\ x <= d>>
        IN  /\ Cardinality({k \in 1..4 : cases[k]}) = 1
            /\ newY # None
            /\ cases[1] => Equals(newY, 0, 1)
            /\ cases[2] => Equals(newY, x - a, b - a)
            /\ cases[3] => Equals(newY, 1, 1)
            /\ cases[4] => Equals(newY, d - x, d - c)
            /\ plot.coords = <<39, 40, 57, 65>> =>
                /\ x \in {39, 65, 70} => newY = Zero
                /\ x \in {40, 50} => newY = One
                /\ x = 60 => newY = <<5, 8>>

C2_Witness ==
    /\ pc = "evaluated"
    /\ plot.coords = <<39, 40, 57, 65>>
    /\ sampleX = 60
    /\ newY = <<5, 8>>

\* C3 as stated: membership is 0 below a and above d, 0 at a, 1 at b, 1 at c
\* and 0 at d, equalities among the breakpoints allowed.
C3_Original ==
    pc = "evaluated" =>
        LET a == plot.coords[1]
            b == plot.coords[2]
            c == plot.coords[3]
            d == plot.coords[4]
            x == sampleX
        IN  /\ (x < a \/ x > d) => newY = Zero
            /\ x = a => newY = Zero
            /\ x = b => newY = One
            /\ x = c => newY = One
            /\ x = d => newY = Zero

\* C3: membership is 0 below a and above d, 1 at b and at c, 0 at a when
\* a < b and 0 at d when c < d (at a = b and at d = c it is 1).
C3_Endpoints ==
    pc = "evaluated" =>
        LET a == plot.coords[1]
            b == plot.coords[2]
            c == plot.coords[3]
            d == plot.coords[4]
            x == sampleX
        IN  /\ (x < a \/ x > d) => newY = Zero
            /\ (x = a /\ a < b) => newY = Zero
            /\ x = b => newY = One
            /\ x = c => newY = One
            /\ (x = d /\ c < d) => newY = Zero

C3_Witness ==
    /\ pc = "evaluated"
    /\ plot.coords[1] = plot.coords[2]
    /\ plot.coords[3] < plot.coords[4]
    /\ sampleX = plot.coords[1]
    /\ newY = One

\* C4 as stated: no evaluation divides by zero; when a = b membership is 1
\* at x = a; when c = d membership is 0 at x = d.
C4_Original ==
    pc = "evaluated" =>
        LET a == plot.coords[1]
            b == plot.coords[2]
            c == plot.coords[3]
            d == plot.coords[4]
            x == sampleX
        IN  /\ newY # ZeroDivisionError
            /\ (a = b /\ x = a) => newY = One
            /\ (c = d /\ x = d) => newY = Zero

\* C4: no evaluation divides by zero; when a = b membership is 0 below a and
\* 1 at x = a; when c = d membership is 1 at x = d and 0 above d.
C4_Degenerate ==
    pc = "evaluated" =>
        LET a == plot.coords[1]
            b == plot.coords[2]
            c == plot.coords[3]
            d == plot.coords[4]
            x == sampleX
        IN  /\ newY # ZeroDivisionError
            /\ (a = b /\ x < a) => newY = Zero
            /\ (a = b /\ x = a) => newY = One
            /\ (c = d /\ x = d) => newY = One
            /\ (c = d /\ x > d) => newY = Zero

C4_Witness ==
    /\ pc = "evaluated"
    /\ plot.coords[1] < plot.coords[2]
    /\ plot.coords[3] = plot.coords[4]
    /\ sampleX = plot.coords[4]
    /\ newY = One

\* C5: whatever the order in which the plots were added and visited, the
\* final table is the one built by visiting them in one fixed order.
C5_OrderIndependent ==
    pc = "show" =>
        \A t \in DOMAIN layouts : valuesOf(t) = TableInFixedOrder(plotsOf(t))

C5_Witness ==
    /\ pc = "show"
    /\ \E p \in plotsOf(WaterTemperature), q \in plotsOf(WaterTemperature) :
        \E x \in SampledPoints({p}) \cap SampledPoints({q}) :
            /\ Greater(membership(p, x), membership(q, x))
            /\ \E z \in SampledPoints({p}) \cap SampledPoints({q}) :
                   Greater(membership(q, z), membership(p, z))

\* C6: a second run of Layout.create on the same plots, started from the
\* table of the first run, leaves the table of the first run.
C6_Idempotent ==
    \A t \in DOMAIN layouts :
        created[t] = 2 => valuesOf(t) = firstValues[t]

C6_Witness ==
    /\ created[WaterTemperature] = 2
    /\ \E p \in plotsOf(WaterTemperature), q \in plotsOf(WaterTemperature) :
        \E x \in SampledPoints({p}) \cap SampledPoints({q}) :
            Greater(membership(p, x), membership(q, x))

\* C7: after aggregation the keys of a table are exactly the points
\* f.start, ..., f.start + f.size - 1 of its plots; the query of an integer
\* returns the table's value at a key and None at any other point, such as 200
\* in the water-temperature table of the source, and None is shown as the
\* message, not raised as an error.
C7_KeysAndLookup ==
    pc = "show" =>
        /\ \A t \in DOMAIN layouts :
               DOMAIN valuesOf(t) = SampledPoints(plotsOf(t))
        /\ IsInt(text) =>
               /\ int(text) \in SampledPoints(plotsOf(WaterTemperature)) =>
                      membershipValue = valuesOf(WaterTemperature)[int(text)]
               /\ int(text) \notin SampledPoints(plotsOf(WaterTemperature)) =>
                      /\ membershipValue = None
                      /\ textLabel = IncorrectValue
        /\ (layoutsData = SourceLayoutsData /\ text = <<"2", "0", "0">>) =>
               membershipValue = None

C7_Witness ==
    /\ pc = "show"
    /\ layoutsData = SourceLayoutsData
    /\ text = <<"2", "0", "0">>
    /\ membershipValue = None
    /\ textLabel = IncorrectValue

\* C8: in every state every value of every table lies in [0, 1], and so does
\* every result of membership: every newY, every point of a curve, and, when
\* a plot is picked, its value at every point within Margin of its support.
C8_ValuesInUnitInterval ==
    /\ \A t \in DOMAIN layouts :
        /\ \A k \in DOMAIN valuesOf(t) : InUnit(valuesOf(t)[k])
        /\ \A curve \in axes[t] :
               \A k \in 1..Len(curve.yValues) : InUnit(curve.yValues[k])
    /\ (pc = "samples" /\ i > 1) => InUnit(newY)
    /\ (pc = "samples" /\ i = 1) =>
           /\ \A k \in 1..Len(yValues) : InUnit(yValues[k])
           /\ \A x \in (start(plot) - Margin)..(end(plot) + Margin) :
                  InUnit(membership(plot, x))

C8_Witness ==
    /\ pc = "show"
    /\ \E k \in DOMAIN valuesOf(WaterTemperature) :
           /\ Greater(valuesOf(WaterTemperature)[k], Zero)
           /\ Greater(One, valuesOf(WaterTemperature)[k])

\* C9: a table is empty until its aggregation starts, changes only in a pass
\* of the inner loop of its layout's single run of Layout.create, and no
\* query (empty, unparsable, integer in or out of the table) changes any
\* table; every layout is aggregated exactly once.
C9_TableLifecycle ==
    /\ [](\A t \in DOMAIN layouts :
            /\ created[t] <= 1
            /\ pc = "show" => created[t] = 1
            /\ (created[t] = 0 /\ ~(layoutTitle = t /\ pc \in {"create", "samples"}))
                   => valuesOf(t) = << >>)
    /\ [][/\ \A t \in DOMAIN layouts :
               layouts'[t].values # layouts[t].values =>
                   /\ pc = "samples"
                   /\ layoutTitle = t
                   /\ created[t] = 0
          /\ pc = "show" => layouts' = layouts]_vars

C9_Witness ==
    /\ pc = "show"
    /\ IsInt(text)
    /\ membershipValue # None
    /\ \A t \in DOMAIN layouts : created[t] = 1 /\ valuesOf(t) # << >>

\* C10: a pass of the inner loop for the sample x sets table[x] to
\* newY = membership(x) if table[x] is absent or table[x] <= newY, leaves it
\* otherwise, and changes no other key; no step removes a key or lowers a
\* value.
C10_UpdateStep ==
    [][\A t \in DOMAIN layouts :
         LET old == layouts[t].values
             new == layouts'[t].values
         IN  /\ new # old =>
                    /\ DOMAIN old \subseteq DOMAIN new
                    /\ \A k \in DOMAIN old : ~Greater(old[k], new[k])
             /\ (pc = "samples" /\ i' = i + 1 /\ t = layoutTitle) =>
                    /\ sampleX' = xValues[i]
                    /\ newY' = membership(plot, sampleX')
                    /\ DOMAIN new = DOMAIN old \cup {sampleX'}
                    /\ \A k \in DOMAIN old \ {sampleX'} : new[k] = old[k]
                    /\ new[sampleX'] =
                           IF sampleX' \notin DOMAIN old
                                  \/ ~Greater(old[sampleX'], newY')
                           THEN newY'
                           ELSE old[sampleX']]_vars

C10_Witness ==
    /\ pc = "samples"
    /\ i > 1
    /\ Greater(valuesOf(layoutTitle)[sampleX], newY)

====
